---------------------------- MODULE Spec2Model ----------------------------
(***************************************************************************)
(* GlowJack receiver (src/receiver.js): the protocol router                *)
(* (handleMessage, updateFeatures), the render loop (render) and the       *)
(* private state of the visualizers (nebulaParticles, tunnelRings).        *)
(*                                                                         *)
(* Numbers.  A JavaScript number is modelled as a fixed-point integer:     *)
(* feature scalars count in 1/Scale, pixels in 1/PX, the wall clock in     *)
(* milliseconds, the render clock in thousandths.  A product with a decay  *)
(* factor is rounded to the nearest grid point, as binary64 rounds to the  *)
(* nearest representable value; on the subnormal grid of binary64 the two  *)
(* coincide unit for unit.                                                 *)
(*                                                                         *)
(* Values.  A JavaScript value is a record [k, n, a]: k its kind, n its    *)
(* number (fixed point) and a its elements when it is an array.  A         *)
(* Float32Array is its length n and its elements a up to the last one that *)
(* is not zero, so new Float32Array(128) is [n |-> 128, a |-> << >>].      *)
(***************************************************************************)
EXTENDS Integers, Sequences, FiniteSets, TLC

VARIABLES
    features,        \* the shared feature object (l.29-37)
    activeVizIndex,  \* l.28
    lastFeatureTime, \* l.39, milliseconds
    time,            \* l.40, the render clock, thousandths
    width, height,   \* l.27, pixels
    nebulaParticles, \* l.136, the tracked particles
    tunnelRings,     \* l.211
    now,             \* performance.now(), milliseconds
    pending,         \* animation-frame callbacks scheduled and not yet run
    sent,            \* replies handed to sendCustomMessage, oldest first
    received,        \* messages delivered to the listener so far
    lastRecv,        \* performance.now() at the last features message, -1: none
    lastOp,          \* what the last step did (its observable outcome)
    connected,       \* l.38
    timers,          \* the due times of the setTimeout callbacks of l.68, in order
    stopped          \* context.stop() has been called (l.70)

vars == <<features, activeVizIndex, lastFeatureTime, time, width, height,
          nebulaParticles, tunnelRings, now, pending, sent, received,
          lastRecv, lastOp, connected, timers, stopped>>

\* the state of the session handlers of l.53-74
session == <<connected, timers, stopped>>

-----------------------------------------------------------------------------
(* Grids and bounds *)

\* feature scalars count in twentieths: 0.05 is one unit, 1.0 is Scale
Scale == 2 * 2 * 5
\* pixels count in hundredths
PX == 10 * 10

\* messages delivered, frames rendered, milliseconds on the clock
MaxMsgs == 2
MaxTicks == 2
MaxNow == 500
\* the same for the runs that fill the ring set
MaxRingMsgs == 3
MaxRingTicks == 32

-----------------------------------------------------------------------------
(* JavaScript values *)

Num(n)  == [k |-> "num", n |-> n, a |-> << >>]
NaN     == [k |-> "nan", n |-> 0, a |-> << >>]
Undef   == [k |-> "undef", n |-> 0, a |-> << >>]
Null    == [k |-> "null", n |-> 0, a |-> << >>]
True    == [k |-> "bool", n |-> 1, a |-> << >>]
False   == [k |-> "bool", n |-> 0, a |-> << >>]
\* the strings the model tells apart: "" (n = 0) and a non-numeric one, "abc"
EmptyStr == [k |-> "str", n |-> 0, a |-> << >>]
AbcStr   == [k |-> "str", n |-> 1, a |-> << >>]
Obj     == [k |-> "obj", n |-> 0, a |-> << >>]
Arr(s)  == [k |-> "arr", n |-> 0, a |-> s]
\* a sequence without its trailing zeros
RECURSIVE Trim(_)
Trim(s) ==
    IF s = << >> \/ s[Len(s)] # Num(0) THEN s
    ELSE Trim(SubSeq(s, 1, Len(s) - 1))
F32(s)  == [k |-> "f32", n |-> Len(s), a |-> Trim(s)]
F32Zeros(len) == [k |-> "f32", n |-> len, a |-> << >>]
\* element i (from 0) of a Float32Array, undefined out of range
Elem(arr, i) ==
    IF i < 0 \/ i >= arr.n THEN Undef
    ELSE IF i < Len(arr.a) THEN arr.a[i + 1] ELSE Num(0)
\* a binary32 that is not the number it was converted from (n: that number)
Rounded(n) == [k |-> "f32r", n |-> n, a |-> << >>]

Abs(i) == IF i < 0 THEN -i ELSE i
Min(i, j) == IF i < j THEN i ELSE j
Max(i, j) == IF i > j THEN i ELSE j
Sign(i) == IF i < 0 THEN -1 ELSE 1

\* ToBoolean
Truthy(v) ==
    CASE v.k = "num"  -> v.n # 0
      [] v.k = "f32r" -> TRUE
      [] v.k = "bool" -> v.n = 1
      [] v.k = "str"  -> v.n # 0
      [] v.k \in {"nan", "undef", "null"} -> FALSE
      [] OTHER -> TRUE

\* a || d
Or(v, d) == IF Truthy(v) THEN v ELSE d

IsNum(v) == v.k \in {"num", "f32r"}

\* ToNumber; an array converts through its string: [] is 0, [x] is x
RECURSIVE ToNumber(_)
ToNumber(v) ==
    CASE v.k \in {"num", "f32r"} -> Num(v.n)
      [] v.k = "bool" -> Num(v.n * Scale)
      [] v.k = "null" -> Num(0)
      [] v.k = "str"  -> IF v.n = 0 THEN Num(0) ELSE NaN
      [] v.k = "arr" ->
            IF Len(v.a) = 0 THEN Num(0)
            ELSE IF Len(v.a) = 1 THEN ToNumber(v.a[1]) ELSE NaN
      [] OTHER -> NaN

-----------------------------------------------------------------------------
(* FeatureState: l.29-37 and updateFeatures, l.102-118 *)

ScalarFields == {"energyLow", "energyMid", "energyHigh", "beatPulse", "isBeat",
                 "beatCount", "beatPhase", "tempoBpm", "brightness",
                 "roughness", "sectionEnergy", "amplitude"}
SeqFields == {"waveform", "fftMagnitudes"}
Fields == ScalarFields \cup SeqFields

WAVEFORM_LEN == 128
FFT_LEN == 64

\* the right-hand sides of the || in l.104-115
ScalarDefault ==
    [fld \in ScalarFields |->
        CASE fld = "isBeat"     -> False
          [] fld = "tempoBpm"   -> Num(120 * Scale)
          [] fld = "brightness" -> Num(Scale \div 2)
          [] OTHER              -> Num(0)]

\* the object literal of l.29-37
InitialFeatures ==
    [fld \in Fields |->
        CASE fld = "waveform"      -> F32Zeros(WAVEFORM_LEN)
          [] fld = "fftMagnitudes" -> F32Zeros(FFT_LEN)
          [] OTHER                 -> ScalarDefault[fld]]

\* the data of a features message: an object with properties p, or a
\* primitive (k # "obj"), whose properties all read undefined
NoProps == [fld \in Fields |-> Undef]
DataObj(props) == [k |-> "obj", p |-> props @@ NoProps]
DataPrim(kind) == [k |-> kind, p |-> NoProps]
DataTruthy(f) == f.k \in {"obj", "true"}
Get(f, fld) == IF f.k = "obj" THEN f.p[fld] ELSE Undef

\* Number -> binary32: multiples of 1/4 are exact, the other grid points
\* are not binary32 values and come back changed
Fround(n) == IF (4 * n) % Scale = 0 THEN Num(n) ELSE Rounded(n)

ToFloat32(e) ==
    LET t == ToNumber(e) IN
    IF e.k = "f32r" THEN e
    ELSE IF t.k = "nan" THEN NaN ELSE Fround(t.n)

\* new Float32Array(v), l.116-117: [ok |-> FALSE] is the RangeError of a
\* negative length; a number, boolean or string is a length (ToIndex), an
\* array is converted element by element, any other object has no length
\* and gives the empty array
NewFloat32Array(v) ==
    CASE v.k = "arr" ->
            [ok |-> TRUE, val |-> F32([i \in 1..Len(v.a) |-> ToFloat32(v.a[i])])]
      [] v.k \in {"num", "f32r", "bool", "str", "null", "undef", "nan"} ->
            LET t == ToNumber(v)
                len == IF t.k = "nan" THEN 0 ELSE Sign(t.n) * (Abs(t.n) \div Scale)
            IN  IF len < 0 THEN [ok |-> FALSE, val |-> F32(<< >>)]
                ELSE [ok |-> TRUE, val |-> F32Zeros(len)]
      [] OTHER -> [ok |-> TRUE, val |-> F32(<< >>)]

\* AssignScalars with beatCount added to the count so far, not assigned
AssignScalarsCounting(feat, f) ==
    [fld \in Fields |->
        IF fld = "beatCount" /\ feat[fld].k = "num" /\ Get(f, fld).k = "num"
        THEN Num(feat[fld].n + Get(f, fld).n)
        ELSE IF fld \in ScalarFields THEN Or(Get(f, fld), ScalarDefault[fld])
        ELSE feat[fld]]

\* l.104-115: every scalar is assigned, supplied value or default
AssignScalars(feat, f) ==
    [fld \in Fields |->
        IF fld \in ScalarFields THEN Or(Get(f, fld), ScalarDefault[fld])
        ELSE feat[fld]]

\* l.116 and l.117: one guarded replacement of a sequence field
AssignSeq(r, f, fld) ==
    IF r.threw \/ ~Truthy(Get(f, fld)) THEN r
    ELSE LET c == NewFloat32Array(Get(f, fld)) IN
         IF c.ok THEN [r EXCEPT !.feat[fld] = c.val]
         ELSE [r EXCEPT !.threw = TRUE]

\* updateFeatures(f): the features it leaves and whether it threw
updateFeatures(feat, f) ==
    IF ~DataTruthy(f) THEN [feat |-> feat, threw |-> FALSE]
    ELSE AssignSeq(AssignSeq([feat |-> AssignScalars(feat, f), threw |-> FALSE],
                             f, "waveform"),
                   f, "fftMagnitudes")

-----------------------------------------------------------------------------
(* Inbound payloads and handleMessage, l.80-100 *)

NAMESPACE == "urn:x-cast:com.grooveglow.viz"

\* a decoded message: an object with type, index and data, or a value of
\* another kind (null, undefined, a number), whose properties cannot be
\* read (null, undefined) or read undefined
Msg(type, index, data) == [k |-> "obj", type |-> type, index |-> index, data |-> data]
MsgPrim(kind) == [k |-> kind, type |-> "undefined", index |-> Undef,
                  data |-> DataPrim("undef")]

\* event.data: a string (JSON text, well formed or not) or a decoded value
Text(v)   == [text |-> TRUE, valid |-> TRUE, v |-> v]
BadText   == [text |-> TRUE, valid |-> FALSE, v |-> MsgPrim("undef")]
Object(v) == [text |-> FALSE, valid |-> TRUE, v |-> v]

FeaturesMsg(props) == Msg("features", Undef, DataObj(props))
VizIndexMsg(index) == Msg("vizIndex", index, DataPrim("undef"))
PingMsg == Msg("ping", Undef, DataPrim("undef"))

\* what one handler run leaves for the observer; upd: the data of the
\* features message it handled, index: the index of the vizIndex message
Outcome(op, what, threw, upd) ==
    [op |-> op, what |-> what, threw |-> threw, upd |-> upd, decayed |-> FALSE,
     attempt |-> FALSE, spawned |-> FALSE, removed |-> 0, index |-> Undef]

\* l.81-83: JSON.parse of a string payload; FALSE is the caught SyntaxError
Parses(p) == ~p.text \/ p.valid

\* l.85: reading data.type of null or undefined is a TypeError
TypeReadThrows(v) == v.k \in {"null", "undef"}

\* l.81-99: where a payload ends up
Route(p) ==
    IF ~Parses(p) THEN "dropped"
    ELSE IF TypeReadThrows(p.v) THEN "typeerror"
    ELSE IF p.v.type \in {"features", "vizIndex", "ping"} THEN p.v.type
    ELSE "ignored"

\* l.86-87: the features case up to the call's return or exception
ApplyFeatures(what, feat, p) ==
    IF what = "features" THEN updateFeatures(feat, p.v.data)
    ELSE [feat |-> feat, threw |-> what = "typeerror"]

\* Stamp with l.88 left out: the timestamp is never reset
StampNever(what, threw, last, t) == last

\* Stamp with the timestamp reset by a ping as well
StampOnPing(what, threw, last, t) ==
    IF what \in {"features", "ping"} /\ ~threw THEN t ELSE last

\* l.88: reached when updateFeatures returned
Stamp(what, threw, last, t) ==
    IF what = "features" /\ ~threw THEN t ELSE last

\* IndexOrZero without the || 0
IndexAsGiven(index) == index

\* l.91
IndexOrZero(index) == Or(index, Num(0))

SelectViz(what, current, p) ==
    IF what = "vizIndex" THEN IndexOrZero(p.v.index) ELSE current

Pong == [namespace |-> NAMESPACE, type |-> "pong"]

\* l.96-97
Reply(what, out) == IF what = "ping" THEN Append(out, Pong) ELSE out

\* handleMessage(data), the whole handler
handleMessage(p, maxMsgs) ==
    LET what == Route(p)
        r == ApplyFeatures(what, features, p)
    IN  /\ received < maxMsgs
        /\ received' = received + 1
        /\ features' = r.feat
        /\ lastFeatureTime' = Stamp(what, r.threw, lastFeatureTime, now)
        /\ activeVizIndex' = SelectViz(what, activeVizIndex, p)
        /\ sent' = Reply(what, sent)
        /\ lastRecv' = IF what = "features" THEN now ELSE lastRecv
        /\ lastOp' = [Outcome("message", what, r.threw,
                               IF what = "features" THEN p.v.data
                               ELSE DataPrim("undef"))
                          EXCEPT !.index = IF what = "vizIndex" THEN p.v.index ELSE Undef]
        /\ UNCHANGED <<time, width, height, nebulaParticles, tunnelRings, now,
                       pending, session>>

-----------------------------------------------------------------------------
(* Arithmetic on the grids *)

\* a / b to the nearest integer, b > 0
RDiv(a, b) == Sign(a) * ((2 * Abs(a) + b) \div (2 * b))

\* n * pct / 100 to the nearest grid point; a tie goes the way the binary64
\* factor lies off pct/100: up in magnitude for 0.9, down for 0.95
MulPct(n, pct, tieUp) ==
    LET m == Abs(n) * pct
        q == m \div 100
        r == m % 100
    IN  Sign(n) * (IF 2 * r > 100 \/ (2 * r = 100 /\ tieUp) THEN q + 1 ELSE q)

\* the remainder of JavaScript's %, which has the sign of the dividend
JSRem(a, m) == Sign(a) * (Abs(a) % m)

RECURSIVE SqrtBetween(_, _, _)
SqrtBetween(n, lo, hi) ==
    IF lo >= hi THEN lo
    ELSE LET mid == (lo + hi + 1) \div 2 IN
         IF mid * mid <= n THEN SqrtBetween(n, mid, hi)
         ELSE SqrtBetween(n, lo, mid - 1)

\* floor of the square root
ISqrt(n) == SqrtBetween(n, 0, Min(n, 46340))

-----------------------------------------------------------------------------
(* Nebula Swarm, l.136-208.  The particles do not interact, so the model    *)
(* tracks the first NumParticles of the NEBULA_COUNT: x, y, vx, vy in 1/PX  *)
(* pixels, hue in 1/Scale degrees; nan: x, y, vx and vy are NaN.            *)

NumParticles == 1

\* one sample of the random draws of initNebula, l.139-151
InitParticle(i, w, h) ==
    [x |-> ((2 * i - 1) * w * PX) \div (2 * NumParticles), y |-> (h * PX) \div 4,
     vx |-> PX \div 2, vy |-> -(PX \div 2), nan |-> FALSE,
     size |-> 3 * PX, hue |-> 0, hueNan |-> FALSE, life |-> PX \div 2]

\* Wrap with the particle held at the edge it crossed
WrapClamped(x, extent) ==
    IF x < 0 THEN 0 ELSE IF x > extent THEN extent ELSE x

\* l.184-187, one axis
Wrap(x, extent) ==
    LET x1 == IF x < 0 THEN x + extent ELSE x
    IN  IF x1 > extent THEN x1 - extent ELSE x1

\* l.190
NextHue(p, eH) ==
    IF p.hueNan \/ eH.k = "nan" THEN [p EXCEPT !.hue = 0, !.hueNan = TRUE]
    ELSE [p EXCEPT !.hue = JSRem(p.hue + Scale \div 2 + 2 * eH.n, 360 * Scale)]

\* l.158-187 for one particle
MoveParticle(p, feat, w, h) ==
    LET eL == ToNumber(feat.energyLow)
        bp == ToNumber(feat.beatPulse)
        beat == Truthy(feat.isBeat)
        dx == (w * PX) \div 2 - p.x
        dy == (h * PX) \div 2 - p.y
        dist == ISqrt(dx * dx + dy * dy) + PX
        attract == Scale \div 2 + 3 * eL.n
        repel == 3 * Scale + 8 * bp.n
        vx1 == p.vx + RDiv(dx * attract, dist * Scale)
        vy1 == p.vy + RDiv(dy * attract, dist * Scale)
        vx2 == IF beat THEN vx1 - RDiv(dx * repel * PX, dist * Scale) ELSE vx1
        vy2 == IF beat THEN vy1 - RDiv(dy * repel * PX, dist * Scale) ELSE vy1
        vx3 == vx2 + RDiv((-dy) * 30, dist)
        vy3 == vy2 + RDiv(dx * 30, dist)
        vx4 == RDiv(vx3 * 97, 100)
        vy4 == RDiv(vy3 * 97, 100)
    IN  IF p.nan \/ eL.k = "nan" \/ (beat /\ bp.k = "nan")
        THEN [p EXCEPT !.x = 0, !.y = 0, !.vx = 0, !.vy = 0, !.nan = TRUE]
        ELSE [p EXCEPT !.vx = vx4, !.vy = vy4,
                       !.x = Wrap(p.x + vx4, w * PX),
                       !.y = Wrap(p.y + vy4, h * PX)]

NebulaStep(p, feat, w, h) ==
    NextHue(MoveParticle(p, feat, w, h), ToNumber(feat.energyHigh))

\* l.193-196: arc() with a negative radius is an IndexSizeError (a NaN
\* radius is ignored); size = p.size * (1 + beatPulse * 2) with p.size > 0
NebulaThrows(feat) ==
    LET bp == ToNumber(feat.beatPulse) IN bp.k = "num" /\ Scale + 2 * bp.n < 0

\* drawNebula(): the exception leaves the loop in its first iteration,
\* after that particle was moved and before any other is
drawNebula(parts, feat, w, h) ==
    [parts |-> [i \in DOMAIN parts |->
                    IF NebulaThrows(feat) /\ i > 1 THEN parts[i]
                    ELSE NebulaStep(parts[i], feat, w, h)],
     threw |-> NebulaThrows(feat)]

-----------------------------------------------------------------------------
(* Bass Tunnel, l.211-278.  A ring: radius in 1/PX pixels (nan: the radius  *)
(* and alpha are NaN), alpha in thousandths, thickness in 1/Scale pixels,   *)
(* waveAmp in 1/(10 * Scale); born: the render clock of the frame that      *)
(* pushed it, which names the ring, as one frame pushes at most one.        *)

MAX_RINGS == 30

\* the values of Math.random() the model draws, in ten-thousandths
SpawnDraws == {0, 100, 9999}

\* l.217, in 1/PX pixels
MaxR(w, h) == Min(w, h) * 45

\* l.220-221: Math.random() < spawnRate * 0.016, in ten-thousandths
RandomSpawn(rnd, eL) ==
    eL.k = "num" /\ rnd * Scale < (3 * Scale + 40 * eL.n) * 16

\* l.221: the condition under which a spawn is attempted
SpawnAttempt(rnd, feat) ==
    RandomSpawn(rnd, ToNumber(feat.energyLow)) \/ Truthy(feat.isBeat)

\* a * x + b on a value that may be NaN
Affine(a, v, b) == IF v.k = "nan" THEN NaN ELSE Num(a * v.n + b)

\* l.223-230; hue and waveOff are one sample of their random draws
NewRing(feat, clock) ==
    LET beat == Truthy(feat.isBeat) IN
    [born |-> clock,
     radius |-> IF beat THEN 8 * PX ELSE 3 * PX,
     nan |-> FALSE,
     thickness |-> IF beat THEN Affine(8, ToNumber(feat.beatPulse), 4 * Scale)
                   ELSE Affine(4, ToNumber(feat.energyLow), 2 * Scale),
     alpha |-> 1000,
     hue |-> 0,
     waveOff |-> 0,
     waveAmp |-> Affine(15, ToNumber(feat.amplitude), 3 * Scale)]

\* HasRoom off by one: <= for <
HasRoomInclusive(rings) == Len(rings) <= MAX_RINGS

\* l.222: the capacity test
HasRoom(rings) == Len(rings) < MAX_RINGS

\* l.221-232
SpawnRings(rings, rnd, feat, clock) ==
    IF SpawnAttempt(rnd, feat) /\ HasRoom(rings)
    THEN Append(rings, NewRing(feat, clock)) ELSE rings

\* l.235 and l.240: speed * 0.016, in 1/PX pixels
RadiusStep(eL) == ((80 * Scale + 300 * eL.n) * 16 * PX) \div (1000 * Scale)

\* l.241: Math.max(0, 1 - radius / maxR), in thousandths
AlphaOf(radius, maxR) ==
    IF maxR = 0 THEN (IF radius < 0 THEN 1000000 ELSE 0)
    ELSE Max(0, (1000 * (maxR - radius)) \div maxR)

\* l.240-241
GrowRing(ring, eL, maxR) ==
    IF ring.nan \/ eL.k = "nan"
    THEN [ring EXCEPT !.radius = 0, !.alpha = 0, !.nan = TRUE]
    ELSE LET r == ring.radius + RadiusStep(eL) IN
         [ring EXCEPT !.radius = r, !.alpha = AlphaOf(r, maxR)]

\* l.243: the removal test, exact on the grid (alpha < 0.02); every
\* comparison with NaN is false
Expired(ring, maxR) ==
    /\ ~ring.nan
    /\ \/ ring.radius > maxR
       \/ 100 * (maxR - ring.radius) < 2 * maxR

\* l.238-246: the survivors keep their order
UpdateRings(rings, eL, maxR) ==
    LET grown == [i \in DOMAIN rings |-> GrowRing(rings[i], eL, maxR)]
        Keep(ring) == ~Expired(ring, maxR)
    IN  SelectSeq(grown, Keep)

\* l.273: createRadialGradient with r1 = 40 + energyLow * 60 negative is an
\* IndexSizeError, with r1 NaN a TypeError
TunnelThrows(feat) ==
    LET eL == ToNumber(feat.energyLow) IN eL.k = "nan" \/ 40 * Scale + 60 * eL.n < 0

\* drawBassTunnel(): the rings are spawned and updated before the gradient
drawBassTunnel(rings, feat, w, h, rnd, clock) ==
    LET spawned == SpawnRings(rings, rnd, feat, clock)
        after == UpdateRings(spawned, ToNumber(feat.energyLow), MaxR(w, h))
    IN  [rings |-> after,
         threw |-> TunnelThrows(feat),
         attempt |-> SpawnAttempt(rnd, feat),
         spawned |-> Len(spawned) > Len(rings),
         removed |-> Len(spawned) - Len(after)]

-----------------------------------------------------------------------------
(* Pulse Grid, l.311-342: no state of its own; arc() throws on a negative   *)
(* radius = 3 + energy * cellW * 0.4 + beatPulse * 5                        *)

GRID_COLS == 16

\* l.322-323: fftMagnitudes[fftIdx] || 0
BinEnergy(fft, gx) ==
    ToNumber(Or(Elem(fft, (gx * fft.n) \div GRID_COLS), Num(0)))

PulseGridThrows(feat, w) ==
    LET bp == ToNumber(feat.beatPulse) IN
    /\ bp.k = "num"
    /\ \E gx \in 0..(GRID_COLS - 1) :
          120 * Scale + BinEnergy(feat.fftMagnitudes, gx).n * w + 200 * bp.n < 0

-----------------------------------------------------------------------------
(* The render loop, l.345-373 *)

TICK == 16
STALE_MS == 200

\* l.353-354
Stale(t, last) == t - last > STALE_MS

\* DecayValue with the factor inverted about 1: 1.1 for 0.9, 1.05 for 0.95
DecayValueGrowing(v, pct, tieUp) ==
    LET t == ToNumber(v) IN
    IF t.k = "nan" THEN NaN ELSE Num(MulPct(t.n, 200 - pct, tieUp))

\* x *= pct / 100 on any value: ToNumber, then the product
DecayValue(v, pct, tieUp) ==
    LET t == ToNumber(v) IN
    IF t.k = "nan" THEN NaN ELSE Num(MulPct(t.n, pct, tieUp))

\* l.355-360
Decay(feat) ==
    [feat EXCEPT !.beatPulse  = DecayValue(@, 90, TRUE),
                 !.amplitude  = DecayValue(@, 95, FALSE),
                 !.energyLow  = DecayValue(@, 95, FALSE),
                 !.energyMid  = DecayValue(@, 95, FALSE),
                 !.energyHigh = DecayValue(@, 95, FALSE),
                 !.isBeat     = False]

VariantName == <<"nebula", "tunnel", "ribbon", "grid">>

\* Dispatch with a number clamped into 0..3 instead of the default case
DispatchClamped(idx) ==
    IF idx.k # "num" \/ idx.n <= 0 THEN 0
    ELSE IF idx.n >= 3 * Scale THEN 3
    ELSE idx.n \div Scale

\* l.364-370: the switch compares with ===, so only the numbers 0, 1, 2, 3
\* select their case and every other value takes the default
Dispatch(idx) ==
    IF idx.k = "num" /\ idx.n \in {0, Scale, 2 * Scale, 3 * Scale}
    THEN idx.n \div Scale ELSE 0

\* Active with every variant stepped on every frame
ActiveAlways(variant, v, drawn, kept) == drawn

\* l.364-370: only the selected case runs, the state of the others stays
Active(variant, v, drawn, kept) == IF variant = v THEN drawn ELSE kept

\* time += 0.016 with the sum assigned without the old value: time = 0.016
NextTimeAssigned(t) == TICK

\* l.346
NextTime(t) == t + TICK

\* render(): one animation frame
render(rnd, maxTicks) ==
    /\ pending > 0
    /\ time < maxTicks * TICK
    /\ time' = NextTime(time)
    /\ LET decayed == Stale(now, lastFeatureTime)
           feat == IF decayed THEN Decay(features) ELSE features
           variant == Dispatch(activeVizIndex)
           neb == drawNebula(nebulaParticles, feat, width, height)
           tun == drawBassTunnel(tunnelRings, feat, width, height, rnd, time')
           threw == CASE variant = 0 -> neb.threw
                      [] variant = 1 -> tun.threw
                      [] variant = 2 -> FALSE
                      [] variant = 3 -> PulseGridThrows(feat, width)
       IN  /\ features' = feat
           /\ nebulaParticles' = Active(variant, 0, neb.parts, nebulaParticles)
           /\ tunnelRings' = Active(variant, 1, tun.rings, tunnelRings)
           \* l.372 is reached only when the draw returned
           /\ pending' = IF threw THEN pending - 1 ELSE pending
           /\ lastOp' = [Outcome("tick", VariantName[variant + 1], threw,
                                 DataPrim("undef"))
                            EXCEPT !.decayed = decayed,
                                   !.attempt = variant = 1 /\ tun.attempt,
                                   !.spawned = variant = 1 /\ tun.spawned,
                                   !.removed = IF variant = 1 THEN tun.removed ELSE 0]
    /\ UNCHANGED <<activeVizIndex, lastFeatureTime, width, height, now, sent,
                   received, lastRecv, session>>

\* resize(), l.128-133, on the window's resize event: the window is w x h
resize(w, h) ==
    /\ <<w, h>> # <<width, height>>
    /\ width' = w
    /\ height' = h
    /\ lastOp' = Outcome("resize", "", FALSE, DataPrim("undef"))
    /\ UNCHANGED <<features, activeVizIndex, lastFeatureTime, time,
                   nebulaParticles, tunnelRings, now, pending, sent, received,
                   lastRecv, session>>

\* performance.now() moves on between two callbacks
Elapse(dt) ==
    /\ now + dt <= MaxNow
    /\ now' = now + dt
    /\ lastOp' = Outcome("clock", "", FALSE, DataPrim("undef"))
    /\ UNCHANGED <<features, activeVizIndex, lastFeatureTime, time, width, height,
                   nebulaParticles, tunnelRings, pending, sent, received,
                   lastRecv, session>>

-----------------------------------------------------------------------------
(* The session handlers of initCastReceiver, l.53-74 *)

\* l.72: the delay of the shutdown timer, milliseconds
SHUTDOWN_MS == 30000

\* l.54-58
SenderConnected ==
    /\ connected' = TRUE
    /\ lastOp' = Outcome("connected", "", FALSE, DataPrim("undef"))
    /\ UNCHANGED <<features, activeVizIndex, lastFeatureTime, time, width, height,
                   nebulaParticles, tunnelRings, now, pending, sent, received,
                   lastRecv, timers, stopped>>

\* l.62-73: connected = false, and the timer is set.  A sender that leaves
\* was connected: the flag says so, or it is another of several senders and
\* the timer of the one that left before it is still running.
SenderDisconnected(maxTimers) ==
    /\ connected \/ timers # << >>
    /\ Len(timers) < maxTimers
    /\ connected' = FALSE
    /\ timers' = Append(timers, now + SHUTDOWN_MS)
    /\ lastOp' = Outcome("disconnected", "", FALSE, DataPrim("undef"))
    /\ UNCHANGED <<features, activeVizIndex, lastFeatureTime, time, width, height,
                   nebulaParticles, tunnelRings, now, pending, sent, received,
                   lastRecv, stopped>>

\* l.68-72: the oldest timer is due and its callback runs: context.stop()
\* when no sender has connected again.  Nothing here, or anywhere, cancels
\* the animation frame render has requested.
ShutdownTimer ==
    /\ timers # << >>
    /\ now >= Head(timers)
    /\ timers' = Tail(timers)
    /\ stopped' = (stopped \/ ~connected)
    /\ lastOp' = Outcome("timer", IF connected THEN "" ELSE "stop", FALSE,
                         DataPrim("undef"))
    /\ UNCHANGED <<features, activeVizIndex, lastFeatureTime, time, width, height,
                   nebulaParticles, tunnelRings, now, pending, sent, received,
                   lastRecv, connected>>

\* performance.now() moves on by dt, up to maxNow
Idle(dt, maxNow) ==
    /\ now + dt <= maxNow
    /\ now' = now + dt
    /\ lastOp' = Outcome("clock", "", FALSE, DataPrim("undef"))
    /\ UNCHANGED <<features, activeVizIndex, lastFeatureTime, time, width, height,
                   nebulaParticles, tunnelRings, pending, sent, received,
                   lastRecv, session>>

-----------------------------------------------------------------------------
(* The program after the load listener, l.376-381, up to its first render() *)

InitOn(w, h) ==
    /\ features = InitialFeatures
    /\ activeVizIndex = Num(0)
    /\ lastFeatureTime = 0
    /\ time = 0
    /\ width = w
    /\ height = h
    /\ nebulaParticles = [i \in 1..NumParticles |-> InitParticle(i, w, h)]
    /\ tunnelRings = << >>
    /\ now = 0
    /\ pending = 1
    /\ sent = << >>
    /\ received = 0
    /\ lastRecv = -1
    /\ lastOp = Outcome("init", "", FALSE, DataPrim("undef"))
    /\ connected = FALSE
    /\ timers = << >>
    /\ stopped = FALSE

-----------------------------------------------------------------------------
(* The environment: the payloads a sender delivers, the clock, the draws *)

\* {beatPulse: 1, isBeat: true, energyLow: 1, energyMid: 0.5, amplitude: 1}
BeatUpdate ==
    [beatPulse |-> Num(Scale), isBeat |-> True, energyLow |-> Num(Scale),
     energyMid |-> Num(Scale \div 2), amplitude |-> Num(Scale)]

\* {energyLow: 0.8, amplitude: 0.9, isBeat: true}
ScenarioUpdate ==
    [energyLow |-> Num((8 * Scale) \div 10), amplitude |-> Num((9 * Scale) \div 10),
     isBeat |-> True]

\* fields of the wrong type
WrongTypeUpdate ==
    [energyLow |-> AbcStr, beatPulse |-> True, isBeat |-> Num(Scale),
     tempoBpm |-> Obj, brightness |-> Null, beatCount |-> Arr(<< >>),
     amplitude |-> EmptyStr]

\* a negative length for waveform, a well-formed fftMagnitudes
BadLengthUpdate ==
    [beatPulse |-> Num(Scale), waveform |-> Num(-Scale),
     fftMagnitudes |-> Arr(<<Num(Scale), Num(Scale \div 2)>>)]

\* sequences: an array with a non-number in it, and a length
SequenceUpdate ==
    [waveform |-> Arr(<<Num(Scale \div 2), Num(1), AbcStr>>),
     fftMagnitudes |-> Num(3 * Scale), tempoBpm |-> Num(90 * Scale)]

\* values below the nominal range [0, 1]
NegativeUpdate ==
    [energyLow |-> Num(-(Scale \div 2)), energyHigh |-> Num(-1),
     brightness |-> Num(Scale)]

NegativePulseUpdate ==
    [beatPulse |-> Num(-Scale), energyLow |-> Num(-Scale)]

FeaturePayloads ==
    { Text(FeaturesMsg(BeatUpdate)),
      Object(FeaturesMsg(ScenarioUpdate)),
      Object(FeaturesMsg(WrongTypeUpdate)),
      Object(FeaturesMsg(BadLengthUpdate)),
      Object(FeaturesMsg(SequenceUpdate)),
      Object(FeaturesMsg(NegativeUpdate)),
      Object(FeaturesMsg(NegativePulseUpdate)),
      Object(Msg("features", Undef, DataPrim("undef"))) }

\* index: 1, 2, 3, 4, -1, 99, "abc", absent
VizPayloads ==
    { Object(VizIndexMsg(v)) :
        v \in {Num(Scale), Num(2 * Scale), Num(3 * Scale), Num(4 * Scale),
               Num(-Scale), Num(99 * Scale), AbcStr, Undef} }

\* not JSON; the JSON text null; an object of an unknown type
OtherPayloads ==
    { BadText, Text(MsgPrim("null")), Object(PingMsg),
      Object(Msg("bogus", Undef, DataPrim("undef"))) }

Payloads == FeaturePayloads \cup VizPayloads \cup OtherPayloads

\* the steps of performance.now() between callbacks, milliseconds
ClockSteps == {200, 300}

\* the window the canvas is sized to at load, l.128-133
Init == InitOn(12, 10)

Next ==
    \/ \E p \in Payloads : handleMessage(p, MaxMsgs)
    \/ \E rnd \in SpawnDraws : render(rnd, MaxTicks)
    \/ \E dt \in ClockSteps : Elapse(dt)

Spec == Init /\ [][Next]_vars

(* The ring set at capacity: a window in which a ring lives for more than   *)
(* MAX_RINGS frames and a sender that has selected the tunnel with its      *)
(* first message, {type: "vizIndex", index: 1}, and then signals a beat at  *)
(* rest ({isBeat: true}) and turns the bass up ({energyLow: 4}).            *)

RingPayloads ==
    { Object(FeaturesMsg([isBeat |-> True])),
      Object(FeaturesMsg([energyLow |-> Num(4 * Scale)])) }

RingDraws == {100, 9999}

\* the state handleMessage leaves from InitOn(160, 120) on that first message
InitRings ==
    /\ features = InitialFeatures
    /\ activeVizIndex = SelectViz("vizIndex", Num(0), Object(VizIndexMsg(Num(Scale))))
    /\ lastFeatureTime = 0
    /\ time = 0
    /\ width = 160
    /\ height = 120
    /\ nebulaParticles = [i \in 1..NumParticles |-> InitParticle(i, 160, 120)]
    /\ tunnelRings = << >>
    /\ now = 0
    /\ pending = 1
    /\ sent = << >>
    /\ received = 1
    /\ lastRecv = -1
    /\ lastOp = [Outcome("message", "vizIndex", FALSE, DataPrim("undef"))
                    EXCEPT !.index = Num(Scale)]
    /\ connected = FALSE
    /\ timers = << >>
    /\ stopped = FALSE

NextRings ==
    \/ \E p \in RingPayloads : handleMessage(p, MaxRingMsgs)
    \/ \E rnd \in RingDraws : render(rnd, MaxRingTicks)

SpecRings == InitRings /\ [][NextRings]_vars

(* Updates on updates: a sender that has delivered one features message    *)
(* and delivers more, with no frame in between.                             *)

MaxUpdateMsgs == 3

\* {beatCount: 7, tempoBpm: 90, waveform: [0.25]}
CountUpdate ==
    [beatCount |-> Num(7 * Scale), tempoBpm |-> Num(90 * Scale),
     waveform |-> Arr(<<Num(Scale \div 4)>>)]

UpdatePayloads == FeaturePayloads \cup {Object(FeaturesMsg(CountUpdate))}

\* performance.now() when the first message arrives, milliseconds
ArrivalTimes == {0, 250}

\* the state handleMessage leaves from InitOn(12, 10) on a first features
\* message p that arrives at t
AfterFeatures(p, t) ==
    LET r == ApplyFeatures("features", InitialFeatures, p) IN
    /\ features = r.feat
    /\ activeVizIndex = Num(0)
    /\ lastFeatureTime = Stamp("features", r.threw, 0, t)
    /\ time = 0
    /\ width = 12
    /\ height = 10
    /\ nebulaParticles = [i \in 1..NumParticles |-> InitParticle(i, 12, 10)]
    /\ tunnelRings = << >>
    /\ now = t
    /\ pending = 1
    /\ sent = << >>
    /\ received = 1
    /\ lastRecv = t
    /\ lastOp = Outcome("message", "features", r.threw, p.v.data)
    /\ connected = FALSE
    /\ timers = << >>
    /\ stopped = FALSE

InitUpdates == \E p \in UpdatePayloads, t \in ArrivalTimes : AfterFeatures(p, t)

NextUpdates == \E p \in UpdatePayloads : handleMessage(p, MaxUpdateMsgs)

SpecUpdates == InitUpdates /\ [][NextUpdates]_vars

(* The swarm on small and resized surfaces: the window is one of           *)
(* SurfaceSizes at load and is resized among them; the sender signals a    *)
(* beat or sends a quiet update.                                            *)

MaxSwarmMsgs == 2
MaxSwarmTicks == 3

\* width x height, pixels
SurfaceSizes == {<<1, 1>>, <<2, 3>>, <<12, 10>>}

\* {energyHigh: 1, amplitude: 0.5}
QuietUpdate == [energyHigh |-> Num(Scale), amplitude |-> Num(Scale \div 2)]

SwarmPayloads ==
    { Object(FeaturesMsg(BeatUpdate)), Object(FeaturesMsg(QuietUpdate)) }

InitSwarm == \E sz \in SurfaceSizes : InitOn(sz[1], sz[2])

NextSwarm ==
    \/ \E p \in SwarmPayloads : handleMessage(p, MaxSwarmMsgs)
    \/ \E rnd \in RingDraws : render(rnd, MaxSwarmTicks)
    \/ \E sz \in SurfaceSizes : resize(sz[1], sz[2])

SpecSwarm == InitSwarm /\ [][NextSwarm]_vars

(* A session: senders connect and disconnect, the shutdown timers run,     *)
(* frames are drawn and pings answered.                                     *)

MaxTimers == 2
MaxSessionTicks == 3
MaxSessionMsgs == 2
MaxSessionNow == 60000

\* the steps of the clock in a session, milliseconds
SessionSteps == {10000, 30000}

NextSession ==
    \/ SenderConnected
    \/ SenderDisconnected(MaxTimers)
    \/ ShutdownTimer
    \/ handleMessage(Object(PingMsg), MaxSessionMsgs)
    \/ \E rnd \in RingDraws : render(rnd, MaxSessionTicks)
    \/ \E dt \in SessionSteps : Idle(dt, MaxSessionNow)

SpecSession == Init /\ [][NextSession]_vars

-----------------------------------------------------------------------------
(* Properties *)

MessageStep == received' # received
TickStep == time' # time

RouterStateUnchanged ==
    /\ features' = features
    /\ activeVizIndex' = activeVizIndex
    /\ lastFeatureTime' = lastFeatureTime

\* C1: a payload that does not decode to a message object (text that is not
\* JSON, or JSON that is no object, such as null) is handled without an
\* exception escaping handleMessage and leaves FeatureState, the active
\* index and the staleness timestamp as they were.
C1_MalformedDropped ==
    [][(MessageStep /\ lastOp'.what \in {"dropped", "typeerror"})
          => (~lastOp'.threw /\ RouterStateUnchanged)]_vars

\* a value of the type the data model gives the field
WellTyped(fld, v) ==
    CASE fld = "isBeat"    -> v.k = "bool"
      [] fld \in SeqFields -> v.k = "f32"
      [] OTHER             -> v.k = "num"

\* C2: after a features message, whatever its fields carry, the handler has
\* not thrown and every field of FeatureState holds a value of its type (a
\* supplied one or the default).
C2_FieldsWellTyped ==
    (lastOp.op = "message" /\ lastOp.what = "features")
        => (~lastOp.threw /\ \A fld \in Fields : WellTyped(fld, features[fld]))

\* what updateFeatures must leave of `before` for the update f
PartialUpdateApplied(before, f, after) ==
    /\ \A fld \in ScalarFields :
          /\ after[fld].k \notin {"undef", "null"}
          /\ Get(f, fld) = Undef => after[fld] \in {before[fld], ScalarDefault[fld]}
    /\ \A fld \in SeqFields :
          /\ after[fld].k = "f32"
          /\ Get(f, fld) = Undef => after[fld] = before[fld]
          /\ Get(f, fld).k = "arr" =>
                /\ after[fld].n = Len(Get(f, fld).a)
                /\ \A i \in 1..Len(Get(f, fld).a) :
                      Elem(after[fld], i - 1) = ToFloat32(Get(f, fld).a[i])

\* C3: a features message with an update object leaves each omitted scalar
\* at its last value or default, no field undefined or null, and each
\* sequence field replaced as a whole when the update carries a sequence
\* for it and unchanged when it is absent.
C3_PartialUpdate ==
    [][(MessageStep /\ lastOp'.what = "features" /\ lastOp'.upd.k = "obj")
          => PartialUpdateApplied(features, lastOp'.upd, features')]_vars

\* C4: once a features message has been received, a tick decays FeatureState
\* exactly when more than STALE_MS have passed since the last one was
\* received, and otherwise leaves every field as it was.
C4_DecayIffStale ==
    [][(TickStep /\ lastRecv >= 0)
          => /\ (now - lastRecv > STALE_MS) => features' = Decay(features)
             /\ ~(now - lastRecv > STALE_MS) => features' = features]_vars

DecayFields == {"beatPulse", "amplitude", "energyLow", "energyMid", "energyHigh"}

\* a stale frame: the tick ran the decay of l.355-360
StaleTick == TickStep /\ Stale(now, lastFeatureTime)

\* a < b on numbers; false when either is not one, as with NaN
Less(a, b) == a.k = "num" /\ b.k = "num" /\ a.n < b.n

MovesFrom(fld) == IF fld = "beatPulse" THEN 2 * 3 ELSE 2 * 5

C7_RingLifecycle ==
    [][TickStep
          => /\ \A i \in DOMAIN tunnelRings : \A j \in DOMAIN tunnelRings' :
                   (tunnelRings[i].born = tunnelRings'[j].born /\ ~tunnelRings'[j].nan)
                      => tunnelRings'[j].radius >= tunnelRings[i].radius
             /\ lastOp'.what = "tunnel"
                   => \A j \in DOMAIN tunnelRings' :
                         ~tunnelRings'[j].nan
                            => /\ tunnelRings'[j].radius <= MaxR(width, height)
                               /\ tunnelRings'[j].alpha >= 20]_vars

\* the index values that have a case of their own in the switch
KnownIndex(idx) == idx.k = "num" /\ idx.n \in {0, Scale, 2 * Scale, 3 * Scale}

\* C8: a tick with an active index other than 0, 1, 2, 3 draws the particle
\* swarm, with the effect drawNebula has on the same FeatureState, and a
\* tick with index 0..3 draws that variant.
C8_IndexFallback ==
    [][TickStep
          => LET d == drawNebula(nebulaParticles, features', width, height) IN
             /\ ~KnownIndex(activeVizIndex)
                   => /\ lastOp'.what = "nebula"
                      /\ nebulaParticles' = d.parts
                      /\ lastOp'.threw = d.threw
                      /\ tunnelRings' = tunnelRings
             /\ KnownIndex(activeVizIndex)
                   => lastOp'.what = VariantName[activeVizIndex.n \div Scale + 1]]_vars

\* a tick drew the swarm, and moved it, under the index "abc"
C8_Witness ==
    /\ lastOp.op = "tick" /\ lastOp.what = "nebula"
    /\ activeVizIndex = AbcStr
    /\ nebulaParticles # [i \in 1..NumParticles |-> InitParticle(i, width, height)]

\* C9: a tick draws the one variant the active index selects and leaves the
\* particles alone unless that is the swarm, and the rings alone unless
\* that is the tunnel.
C9_OnlyActiveDraws ==
    [][TickStep
          => /\ lastOp'.what =
                   (IF KnownIndex(activeVizIndex)
                    THEN VariantName[activeVizIndex.n \div Scale + 1] ELSE "nebula")
             /\ lastOp'.what # "nebula" => nebulaParticles' = nebulaParticles
             /\ lastOp'.what # "tunnel" => tunnelRings' = tunnelRings]_vars

\* the tunnel was left with a ring in it, and a later tick drew the swarm
\* and moved the particles while the ring stayed as it was
C9_Witness ==
    /\ lastOp.op = "tick" /\ lastOp.what = "nebula"
    /\ Len(tunnelRings) = 1
    /\ tunnelRings[1].born = TICK
    /\ time = 2 * TICK
    /\ nebulaParticles # [i \in 1..NumParticles |-> InitParticle(i, width, height)]

\* C10: handling a ping appends exactly one pong on the namespace to the
\* replies and leaves FeatureState, the active index and the staleness
\* timestamp as they were.
C10_PingPong ==
    [][(MessageStep /\ lastOp'.what = "ping")
          => (sent' = Append(sent, Pong) /\ RouterStateUnchanged)]_vars

\* a ping was answered while the features were stale, and they still are
C10_Witness ==
    /\ lastOp.op = "message" /\ lastOp.what = "ping"
    /\ sent = <<[namespace |-> "urn:x-cast:com.grooveglow.viz", type |-> "pong"]>>
    /\ lastRecv >= 0
    /\ Stale(now, lastFeatureTime)

\* C6: the ring set never holds more than MAX_RINGS rings; a frame that
\* finds it full pushes no ring, whether the attempt is random or on a
\* beat, and a frame that makes no attempt pushes none either (nothing is
\* carried over from a skipped attempt).
C6_RingCapacity ==
    /\ [](Len(tunnelRings) <= MAX_RINGS)
    /\ [][TickStep
            => /\ Len(tunnelRings) = MAX_RINGS
                     => (~lastOp'.spawned /\ Len(tunnelRings') <= MAX_RINGS)
               /\ ~lastOp'.attempt => ~lastOp'.spawned
               /\ ~lastOp'.spawned
                     => \A j \in DOMAIN tunnelRings' : tunnelRings'[j].born # time'
               /\ Len(tunnelRings') <= Len(tunnelRings) + 1]_vars

\* a beat found the set full: the attempt was made, nothing was pushed and
\* the MAX_RINGS rings are all still there
C6_Witness ==
    /\ lastOp.op = "tick" /\ lastOp.what = "tunnel"
    /\ lastOp.attempt /\ ~lastOp.spawned
    /\ Truthy(features.isBeat)
    /\ Len(tunnelRings) = MAX_RINGS

\* C11: a signalled beat is seen by one frame only: a tick that follows a
\* tick which drew with isBeat true, with no message in between, draws with
\* isBeat false (the frame draws with the features it leaves).
C11_BeatOneFrame ==
    [][(TickStep /\ lastOp.op = "tick" /\ Truthy(features.isBeat))
          => ~Truthy(features'.isBeat)]_vars

\* every field the update f supplies is in feat: the scalars as l.104-115
\* assign them, a supplied array as the sequence field it replaces
FullyApplied(f, feat) ==
    /\ \A fld \in ScalarFields : feat[fld] = Or(Get(f, fld), ScalarDefault[fld])
    /\ \A fld \in SeqFields :
          Get(f, fld).k = "arr" =>
             feat[fld] = F32([i \in 1..Len(Get(f, fld).a) |-> ToFloat32(Get(f, fld).a[i])])

\* C12: the FeatureState a tick reads right after a features message holds
\* that update as a whole, never a part of it.
C12_TickSeesWholeUpdate ==
    [][(TickStep /\ lastOp.op = "message" /\ lastOp.what = "features"
                 /\ lastOp.upd.k = "obj")
          => FullyApplied(lastOp.upd, features)]_vars

\* the fields {energyLow: 0.8, amplitude: 0.9, isBeat: true} sets
ScenarioSet == {"energyLow", "amplitude", "isBeat"}

C14_Idempotent ==
    [][(MessageStep /\ lastOp.op = "message" /\ lastOp.what = "features"
                    /\ lastOp'.what = "features" /\ lastOp'.upd = lastOp.upd)
          => features' = features]_vars

\* the same update was applied twice on top of a different one, and it set
\* a scalar and replaced a sequence
C14_Witness ==
    /\ received = 3
    /\ lastOp.op = "message" /\ lastOp.what = "features"
    /\ lastOp.upd = DataObj(CountUpdate)
    /\ features.beatCount = Num(7 * Scale)
    /\ features.waveform = F32(<<Num(Scale \div 4)>>)
    /\ features.fftMagnitudes = F32Zeros(3)

\* where C15 puts a particle that the step moved to x on an axis of the
\* given extent
WrapAsClaimed(x, extent) ==
    IF x > extent THEN x - extent
    ELSE IF x < 0 THEN x + extent
    ELSE x

\* the particles the frame stepped: all of them, or the first when its
\* arc() threw
Stepped(i, outcome) == ~outcome.threw \/ i = 1

\* C15: a swarm tick leaves each particle it stepped at its old position
\* plus its new velocity, brought back by one extent when that is beyond
\* the width (height) or below 0, and untouched by the wrap when it is on
\* the surface.
C15_Wraparound ==
    [][(TickStep /\ lastOp'.what = "nebula")
          => \A i \in DOMAIN nebulaParticles :
                (Stepped(i, lastOp') /\ ~nebulaParticles'[i].nan)
                   => /\ nebulaParticles'[i].x =
                            WrapAsClaimed(nebulaParticles[i].x + nebulaParticles'[i].vx,
                                          width * PX)
                      /\ nebulaParticles'[i].y =
                            WrapAsClaimed(nebulaParticles[i].y + nebulaParticles'[i].vy,
                                          height * PX)]_vars

\* a particle moving up left the top of a 12 x 10 surface and is back on it
\* near the bottom: the position it came from, y - vy, is beyond the height
C15_Witness ==
    /\ lastOp.op = "tick" /\ lastOp.what = "nebula"
    /\ width = 12 /\ height = 10
    /\ \E i \in DOMAIN nebulaParticles :
          /\ ~nebulaParticles[i].nan
          /\ nebulaParticles[i].vy < 0
          /\ nebulaParticles[i].y - nebulaParticles[i].vy > height * PX
          /\ nebulaParticles[i].y <= height * PX

\* C20: after a swarm tick every particle is on the surface.
C20_OnSurface ==
    (lastOp.op = "tick" /\ lastOp.what = "nebula")
        => \A i \in DOMAIN nebulaParticles :
              ~nebulaParticles[i].nan
                 => /\ 0 <= nebulaParticles[i].x
                    /\ nebulaParticles[i].x <= width * PX
                    /\ 0 <= nebulaParticles[i].y
                    /\ nebulaParticles[i].y <= height * PX

\* C16: a render tick advances the render clock by TICK (0.016), no other
\* step (a message of any kind, the wall clock moving) changes it, and it
\* never decreases.
C16_RenderClock ==
    [][/\ lastOp'.op = "tick" => time' = time + TICK
       /\ lastOp'.op # "tick" => time' = time
       /\ time' >= time]_vars

\* two frames were drawn with two messages handled around them, and the
\* clock stands at 0.032
C16_Witness ==
    /\ time = 2 * TICK
    /\ received = 2
    /\ lastOp.op = "message"

\* C18: the active index is 0 at the start; a vizIndex message sets it to
\* the index it carries, or to 0 when that is absent or falsy, and changes
\* neither FeatureState nor the staleness timestamp; no other step (a
\* features message, a ping, any other payload, a tick, the clock) changes
\* it.  So at every tick it is the index of the last vizIndex message.
C18_ActiveIndex ==
    /\ activeVizIndex = Num(0)
    /\ [][IF MessageStep /\ lastOp'.what = "vizIndex"
          THEN /\ activeVizIndex' =
                     (IF Truthy(lastOp'.index) THEN lastOp'.index ELSE Num(0))
               /\ features' = features
               /\ lastFeatureTime' = lastFeatureTime
          ELSE activeVizIndex' = activeVizIndex]_vars

\* index 3 was selected, then a features message was handled, and the tick
\* after that drew the pulse grid
C18_Witness ==
    /\ lastOp.op = "tick" /\ lastOp.what = "grid"
    /\ activeVizIndex = Num(3 * Scale)
    /\ received = 2
    /\ lastRecv >= 0

\* C17: once the stop operation has been invoked (the only one the code
\* has is context.stop()), no animation-frame callback is pending and no
\* tick runs.
C17_StopHaltsLoop ==
    /\ [](stopped => pending = 0)
    /\ [][stopped => ~TickStep]_vars

\* C19: every tick returns normally and leaves exactly one animation-frame
\* callback pending, whatever messages came before it.
C19_LoopPerpetual ==
    /\ [](pending = 1)
    /\ [][TickStep => ~lastOp'.threw]_vars

=============================================================================
